---- MODULE Spec2Model ----
(***************************************************************************)
(* Model of the tree construction of pages/utils/fig_utils.py:             *)
(* find_first_options, find_mid_options, find_last_options and keys_search.*)
(*                                                                         *)
(* A Python string is modelled as the sequence of its characters, so that  *)
(* concatenation, str.endswith, str.replace and the ordering used by       *)
(* sorted() are computed and not assumed.  "" is the empty sequence.       *)
(***************************************************************************)
EXTENDS Integers, Sequences, FiniteSets, TLC

(***************************************************************************)
(* Python strings                                                          *)
(***************************************************************************)

\* The characters the model's strings are written with, in code point order
\* ('*' < upper case < lower case), which is the order sorted() compares by.
Alphabet ==
    << "*", "B", "F", "_", "a", "b", "c", "d", "e", "f", "g", "h", "i", "j",
       "k", "l", "m", "n", "o", "p", "q", "r", "s", "t", "u", "v", "w", "x",
       "y", "z" >>

Code ==
    [ch \in {Alphabet[i] : i \in 1..Len(Alphabet)} |->
        CHOOSE i \in 1..Len(Alphabet) : Alphabet[i] = ch]

\* a < b for two Python strings
RECURSIVE LessFrom(_, _, _)
LessFrom(a, b, i) ==
    IF i > Len(b) THEN FALSE
    ELSE IF i > Len(a) THEN TRUE
    ELSE IF a[i] = b[i] THEN LessFrom(a, b, i + 1)
    ELSE Code[a[i]] < Code[b[i]]

StrLess(a, b) == LessFrom(a, b, 1)

StrLeq(a, b) == a = b \/ StrLess(a, b)

\* s.endswith(suffix)
EndsWith(s, suffix) ==
    /\ Len(s) >= Len(suffix)
    /\ SubSeq(s, Len(s) - Len(suffix) + 1, Len(s)) = suffix

\* s.replace(old, new), old not empty: every non-overlapping occurrence,
\* scanning from the left
RECURSIVE Replace(_, _, _)
Replace(s, old, new) ==
    IF Len(s) < Len(old) THEN s
    ELSE IF SubSeq(s, 1, Len(old)) = old
         THEN new \o Replace(SubSeq(s, Len(old) + 1, Len(s)), old, new)
         ELSE <<s[1]>> \o Replace(Tail(s), old, new)

Star == << "*" >>
Empty == << >>
src == << "s", "r", "c" >>
defaults == << "d", "e", "f", "a", "u", "l", "t", "s" >>

(***************************************************************************)
(* Python sequences                                                        *)
(***************************************************************************)

\* x in seq
In(x, seq) == \E i \in 1..Len(seq) : seq[i] = x

\* set(seq)
ToSet(seq) == { seq[i] : i \in 1..Len(seq) }

\* [x] * n
RECURSIVE Repeat(_, _)
Repeat(x, n) == IF n <= 0 THEN << >> ELSE <<x>> \o Repeat(x, n - 1)

\* seq[start:end] for integers start and end: a negative index counts from
\* the end, an index past either end is clamped, start >= end gives [].
Clamp(i, n) == IF i < 0 THEN (IF n + i < 0 THEN 0 ELSE n + i)
               ELSE (IF i > n THEN n ELSE i)

\* seq[start:end] that stops one item short of end
PySliceShort(seq, start, end) ==
    SubSeq(seq, Clamp(start, Len(seq)) + 1, Clamp(end, Len(seq)) - 1)

PySlice(seq, start, end) ==
    SubSeq(seq, Clamp(start, Len(seq)) + 1, Clamp(end, Len(seq)))

\* sorted(S) for a set of strings
RECURSIVE SortedStrs(_)
SortedStrs(S) ==
    IF S = {} THEN << >>
    ELSE LET m == CHOOSE x \in S : \A y \in S : StrLeq(x, y)
         IN  <<m>> \o SortedStrs(S \ {m})

\* tuple comparison of two (parent, label, id) triples
TripleLeq(a, b) ==
    \/ StrLess(a[1], b[1])
    \/ a[1] = b[1] /\ StrLess(a[2], b[2])
    \/ a[1] = b[1] /\ a[2] = b[2] /\ StrLeq(a[3], b[3])

\* sorted(S) for a set of triples
RECURSIVE SortedTriples(_)
SortedTriples(S) ==
    IF S = {} THEN << >>
    ELSE LET m == CHOOSE x \in S : \A y \in S : TripleLeq(x, y)
         IN  <<m>> \o SortedTriples(S \ {m})

\* max(a, b) that keeps the later value
MaxLast(a, b) == b

Max(a, b) == IF a >= b THEN a ELSE b

(***************************************************************************)
(* Python objects                                                          *)
(*                                                                         *)
(* A value is a record [kind, elems, item]:                                *)
(*   "none"   None: neither iterable nor subscriptable (TypeError)         *)
(*   "str"    a string, "tuple" a tuple: the scalars of isinstance(...);   *)
(*            iterating one yields its characters or its items (elems)     *)
(*   "obj"    a plotly compound object: iterating it yields its property   *)
(*            names (elems), v[name] is item[name] for a property name and *)
(*            raises PlotlyKeyError for any other name                     *)
(*   "strs"   a list of strings (elems): v[name] raises TypeError          *)
(*   "nums"   a non-empty array of numbers: its elements have no endswith  *)
(***************************************************************************)
NoItem == [n \in {} |-> 0]

NoneVal  == [kind |-> "none",  elems |-> << >>, item |-> NoItem]
StrVal   == [kind |-> "str",   elems |-> << <<"a">>, <<"b">> >>,
             item |-> NoItem]
TupleVal == [kind |-> "tuple", elems |-> << <<"a">> >>, item |-> NoItem]
NumsVal  == [kind |-> "nums",  elems |-> << >>, item |-> NoItem]
StrsVal(elems) == [kind |-> "strs", elems |-> elems, item |-> NoItem]
ObjVal(elems, item) == [kind |-> "obj", elems |-> elems, item |-> item]

\* v[name]
GetItem(v, name) ==
    IF v.kind = "obj"
    THEN IF name \in DOMAIN v.item
         THEN [exc |-> "none", val |-> v.item[name]]
         ELSE [exc |-> "PlotlyKeyError", val |-> NoneVal]
    ELSE [exc |-> "TypeError", val |-> NoneVal]

\* root_go_obj[name]: a figure raises a plain KeyError for a name it does
\* not hold, a trace or layout object raises PlotlyKeyError
RootGetItem(root_go_obj, name) ==
    IF name \in DOMAIN root_go_obj.item
    THEN [exc |-> "none", val |-> root_go_obj.item[name]]
    ELSE [exc |-> root_go_obj.missing, val |-> NoneVal]

\* isinstance(v, str): the tuple is left out
IsScalarStrOnly(v) == v.kind = "str"

\* isinstance(v, (str, tuple))
IsScalar(v) == v.kind \in {"str", "tuple"}

\* an except clause catches the classes it names and their subclasses;
\* PlotlyKeyError derives from KeyError
Catches(handlers, exc) ==
    \/ exc \in handlers
    \/ exc = "PlotlyKeyError" /\ "KeyError" \in handlers

(***************************************************************************)
(* The filter range (split): None, or a mapping from "level_1", "level_2", *)
(* "level_3" to {"start", "end"}.  A level is "ok" (both keys there),      *)
(* "absent" (the mapping has no key for the level) or "noend" (the level's *)
(* mapping lacks "end"); the last two make the subscript raise KeyError.   *)
(***************************************************************************)
NoRange == [st |-> "absent", start |-> 0, end |-> 0]
NoSplit == [present |-> FALSE,
            level_1 |-> NoRange, level_2 |-> NoRange, level_3 |-> NoRange]

\* seq[level['start']:level['end']] inside try ... except KeyError: pass
SliceOrPass(seq, level) ==
    IF level.st = "ok" THEN PySlice(seq, level.start, level.end) ELSE seq

(***************************************************************************)
(* find_first_options                                                      *)
(***************************************************************************)
to_remove ==
    { << "s", "e", "l", "f" >>,
      << "a", "r", "g" >>,
      << "k", "w", "a", "r", "g", "s" >>,
      << "a", "n", "n", "o", "t", "a", "t", "i", "o", "n", "s" >>,
      << "c", "o", "l", "o", "r", "a", "x", "i", "s" >>,
      << "g", "e", "o" >>,
      << "i", "m", "a", "g", "e", "s" >>,
      << "m", "a", "p", "b", "o", "x" >>,
      << "p", "o", "l", "a", "r" >>,
      << "s", "c", "e", "n", "e" >>,
      << "s", "e", "l", "e", "c", "t", "i", "o", "n", "s" >>,
      << "s", "h", "a", "p", "e", "s" >>,
      << "s", "l", "i", "d", "e", "r", "s" >>,
      << "s", "m", "i", "t", "h" >>,
      << "t", "e", "r", "n", "a", "r", "y" >>,
      << "u", "p", "d", "a", "t", "e", "m", "e", "n", "u", "s" >>,
      << "x", "a", "x", "i", "s" >>,
      << "y", "a", "x", "i", "s" >> }

\* the loop over signature.parameters: the names kept, in signature order
RECURSIVE main_keys(_)
main_keys(params) ==
    IF params = << >> THEN << >>
    ELSE LET param_name == Head(params)
         IN  (IF /\ param_name \notin to_remove
                 /\ ~EndsWith(param_name, src)
                 /\ ~EndsWith(param_name, defaults)
              THEN <<param_name>> ELSE << >>)
             \o main_keys(Tail(params))

\* FirstId without the root_key test: every root-level id is prefixed
FirstIdPrefixed(parent, label, root_key) == parent \o Star \o label

\* the id of a root-level node
FirstId(parent, label, root_key) ==
    IF root_key # Empty THEN parent \o Star \o label ELSE label

\* zip(parents, labels, ids), before the level_1 slice
FirstZipped(figure, root_key) ==
    LET keys       == main_keys(figure.params)
        class_name == figure.class_name
        labels     == <<class_name>> \o keys
        parents    == <<Empty>> \o Repeat(class_name, Len(keys))
        ids        == <<class_name>> \o
                      [i \in 1..Len(keys) |->
                          FirstId(parents[i + 1], labels[i + 1], root_key)]
    IN  [i \in 1..Len(labels) |-> <<parents[i], labels[i], ids[i]>>]

\* the tree of a list of (parent, label, id) triples
Unzip(zipped) ==
    [parents |-> [i \in 1..Len(zipped) |-> zipped[i][1]],
     labels  |-> [i \in 1..Len(zipped) |-> zipped[i][2]],
     ids     |-> [i \in 1..Len(zipped) |-> zipped[i][3]]]

EmptyTree == [parents |-> << >>, labels |-> << >>, ids |-> << >>]

\* the count find_first_options returns for the zipped list it returns
FirstCount(zipped) == Len(zipped)

\* parents, labels, ids = zip(*zipped) raises ValueError when zipped is
\* empty: there is nothing to unpack into the three names
FindFirstOptions(figure, root_key, split) ==
    LET full   == FirstZipped(figure, root_key)
        zipped == IF split.present THEN SliceOrPass(full, split.level_1)
                  ELSE full
    IN  IF zipped = << >>
        THEN [raised |-> "ValueError", tree |-> EmptyTree,
              zipped |-> zipped, zipped_len |-> 0]
        ELSE [raised |-> "none", tree |-> Unzip(zipped),
              zipped |-> zipped, zipped_len |-> FirstCount(zipped)]

(***************************************************************************)
(* Candidate names of a value                                              *)
(***************************************************************************)

\* sorted(v): the set() is left out, repeated elements stay
RECURSIVE SortedKeepDup(_)
SortedKeepDup(elems) ==
    IF elems = << >> THEN << >>
    ELSE LET rest == SortedKeepDup(Tail(elems))
             k    == Cardinality({i \in 1..Len(rest) :
                                    StrLess(rest[i], Head(elems))})
         IN  SubSeq(rest, 1, k) \o <<Head(elems)>>
             \o SubSeq(rest, k + 1, Len(rest))

\* sorted(set(v)) for a value whose elements are strings
SortedUnique(elems) == SortedStrs(ToSet(elems))

\* [key for key in keys if not key.endswith(...)] for the suffixes given
DropSuffixed(keys, suffixes) ==
    SelectSeq(keys, LAMBDA key : \A suffix \in suffixes : ~EndsWith(key, suffix))

\* the exception raised by enumerating the candidate names of a value that
\* is not a scalar: set(None) raises TypeError, and an element that is not
\* a string has no endswith (AttributeError)
EnumExc(v) ==
    CASE v.kind = "none" -> "TypeError"
      [] v.kind = "nums" -> "AttributeError"
      [] OTHER           -> "none"

\* the suffixes the mid pass and the leaf pass filter out
MidSuffixes == {src, defaults}
LastSuffixes == {src}

(***************************************************************************)
(* find_mid_options                                                        *)
(***************************************************************************)

\* the options dict, in insertion order: a sequence of [key, val]
HasKey(options, key) == \E i \in 1..Len(options) : options[i].key = key

Get(options, key) ==
    options[CHOOSE i \in 1..Len(options) : options[i].key = key].val

Put(options, key, val) ==
    IF HasKey(options, key)
    THEN [i \in 1..Len(options) |->
            IF options[i].key = key THEN [key |-> key, val |-> val]
            ELSE options[i]]
    ELSE Append(options, [key |-> key, val |-> val])

MidCaught == {"TypeError", "KeyError", "PlotlyKeyError"}

\* the first loop: one iteration per label of the tree
RECURSIVE MidScan(_, _, _, _, _)
MidScan(labels, root_go_obj, split, options, list_max) ==
    IF labels = << >>
    THEN [raised |-> "none", options |-> options, list_max |-> list_max]
    ELSE
      LET label   == Head(labels)
          got     == RootGetItem(root_go_obj, label)
          scalar  == IsScalar(got.val)
          exc     == IF got.exc # "none" THEN got.exc
                     ELSE IF scalar THEN "none" ELSE EnumExc(got.val)
          keys    == DropSuffixed(SortedUnique(got.val.elems), MidSuffixes)
          found   == IF scalar THEN options ELSE Put(options, label, keys)
          new_max == IF scalar THEN list_max ELSE Max(list_max, Len(keys))
          \* options[label] raises KeyError when the label has no entry
          sliced  == IF split.present /\ HasKey(found, label)
                     THEN Put(found, label,
                              SliceOrPass(Get(found, label), split.level_2))
                     ELSE found
      IN  IF exc # "none"
          THEN IF Catches(MidCaught, exc)
               THEN MidScan(Tail(labels), root_go_obj, split,
                            options, list_max)
               ELSE [raised |-> exc, options |-> options,
                     list_max |-> list_max]
          ELSE MidScan(Tail(labels), root_go_obj, split, sliced, new_max)

\* MidParent without the root_key test: the prefix is always written
MidParentPrefixed(root_key, new_key) == root_key \o Star \o new_key

\* the parent and the id of a mid-level node
MidParent(root_key, new_key) ==
    IF root_key # Empty THEN root_key \o Star \o new_key ELSE new_key

MidId(root_key, new_key, option) ==
    IF root_key # Empty
    THEN root_key \o Star \o new_key \o Star \o option
    ELSE new_key \o Star \o option

\* the second loop: one iteration per entry of options
RECURSIVE MidExtend(_, _, _)
MidExtend(tree, options, root_key) ==
    IF options = << >> THEN tree
    ELSE
      LET new_key     == Head(options).key
          new_options == Head(options).val
          n           == Len(new_options)
      IN  MidExtend(
            [parents |-> tree.parents
                         \o Repeat(MidParent(root_key, new_key), n),
             labels  |-> tree.labels \o new_options,
             ids     |-> tree.ids \o
                         [i \in 1..n |->
                             MidId(root_key, new_key, new_options[i])]],
            Tail(options), root_key)

FindMidOptions(tree, root_go_obj, root_key, split) ==
    LET scan == MidScan(tree.labels, root_go_obj, split, << >>, 0)
    IN  IF scan.raised # "none"
        THEN [raised |-> scan.raised, tree |-> tree, list_max |-> 0]
        ELSE [raised |-> "none",
              tree |-> MidExtend(tree, scan.options, root_key),
              list_max |-> scan.list_max]

(***************************************************************************)
(* find_last_options                                                       *)
(***************************************************************************)
\* variant of Zip: the parent is taken where the id belongs, so that a new
\* node is put under the parent of the node it comes from
ZipParentAsId(tree) ==
    [i \in 1..Len(tree.ids) |->
        <<tree.parents[i], tree.labels[i], tree.parents[i]>>]

\* zip(tree["parents"], tree["labels"], tree["ids"])
Zip(tree) ==
    [i \in 1..Len(tree.ids) |->
        <<tree.parents[i], tree.labels[i], tree.ids[i]>>]

\* the triples of the tree that are not in zipped, sorted, once each
zip_diff(tree, zipped) ==
    SelectSeq(SortedTriples(ToSet(Zip(tree))), LAMBDA item : ~In(item, zipped))

LastCaught == {"TypeError", "PlotlyKeyError"}

\* the loop: one iteration per triple of zip_diff
RECURSIVE LastScan(_, _, _, _, _, _)
LastScan(items, tree, root_go_obj, root_key, split, list_max) ==
    IF items = << >>
    THEN [raised |-> "none", tree |-> tree, list_max |-> list_max]
    ELSE
      LET label   == Head(items)[2]
          zip_id  == Head(items)[3]
          parent  == Replace(Head(items)[1], root_key \o Star, Empty)
          outer   == RootGetItem(root_go_obj, parent)
          got     == IF outer.exc # "none" THEN outer
                     ELSE GetItem(outer.val, label)
          scalar  == IsScalar(got.val)
          exc     == IF got.exc # "none" THEN got.exc
                     ELSE IF scalar THEN "none" ELSE EnumExc(got.val)
          keys    == DropSuffixed(SortedUnique(got.val.elems), LastSuffixes)
          new_labels == IF split.present
                        THEN SliceOrPass(keys, split.level_3) ELSE keys
          n       == Len(new_labels)
      IN  IF exc # "none"
          THEN IF Catches(LastCaught, exc)
               THEN LastScan(Tail(items), tree, root_go_obj, root_key,
                             split, list_max)
               ELSE [raised |-> exc, tree |-> tree, list_max |-> list_max]
          ELSE IF scalar
          THEN LastScan(Tail(items), tree, root_go_obj, root_key,
                        split, list_max)
          ELSE LastScan(
                 Tail(items),
                 [parents |-> tree.parents \o Repeat(zip_id, n),
                  labels  |-> tree.labels \o new_labels,
                  ids     |-> tree.ids \o
                              [i \in 1..n |->
                                  zip_id \o Star \o new_labels[i]]],
                 root_go_obj, root_key, split, Max(list_max, Len(keys)))

FindLastOptions(tree, zipped, root_go_obj, root_key, split) ==
    LET scan == LastScan(zip_diff(tree, zipped), tree, root_go_obj,
                         root_key, split, 0)
    IN  IF scan.raised # "none"
        THEN [raised |-> scan.raised, tree |-> tree, list_max |-> 0]
        ELSE scan

(***************************************************************************)
(* keys_search                                                             *)
(***************************************************************************)
Raise(exc) ==
    [raised |-> exc, parents |-> << >>, labels |-> << >>, ids |-> << >>,
     len_levels |-> <<0, 0, 0>>]

KeysSearch(go_obj, split, root_key) ==
    LET first == FindFirstOptions(go_obj, root_key, split)
        mid   == FindMidOptions(first.tree, go_obj, root_key, split)
        last  == FindLastOptions(mid.tree, first.zipped, go_obj,
                                 root_key, split)
    IN  IF first.raised # "none" THEN Raise(first.raised)
        ELSE IF mid.raised # "none" THEN Raise(mid.raised)
        ELSE IF last.raised # "none" THEN Raise(last.raised)
        ELSE [raised |-> "none", parents |-> last.tree.parents,
              labels |-> last.tree.labels, ids |-> last.tree.ids,
              len_levels |->
                  <<first.zipped_len, mid.list_max, last.list_max>>]

(***************************************************************************)
(* The objects keys_search is called with.  They follow the shapes of the  *)
(* plotly objects of GO_INFO: a trace whose constructor lists its          *)
(* parameters in alphabetical order (Bar), a figure whose constructor does *)
(* not and which raises KeyError for a name it does not hold (Fig), and an *)
(* object none of whose parameters is kept (Box).  Variants draws the      *)
(* value of Bar's meta (first) and of the innermost property, color or     *)
(* meta, of Bar and Fig (second).                                          *)
(***************************************************************************)
n_Bar == << "B", "a", "r" >>
n_Fig == << "F", "i", "g" >>
n_Box == << "B", "o", "x" >>
n_arg == << "a", "r", "g" >>
n_kwargs == << "k", "w", "a", "r", "g", "s" >>
n_font == << "f", "o", "n", "t" >>
n_marker == << "m", "a", "r", "k", "e", "r" >>
n_meta == << "m", "e", "t", "a" >>
n_metasrc == << "m", "e", "t", "a", "s", "r", "c" >>
n_xaxis == << "x", "a", "x", "i", "s" >>
n_layout == << "l", "a", "y", "o", "u", "t" >>
n_frames == << "f", "r", "a", "m", "e", "s" >>
n_skip == << "s", "k", "i", "p" >>
n_xsrc == << "x", "s", "r", "c" >>
n_size == << "s", "i", "z", "e" >>
n_color == << "c", "o", "l", "o", "r" >>
n_line == << "l", "i", "n", "e" >>
n_bar == << "b", "a", "r" >>
n_colorsrc == << "c", "o", "l", "o", "r", "s", "r", "c" >>
n_stepdefaults == << "s", "t", "e", "p", "d", "e", "f", "a", "u", "l", "t", "s" >>
n_x == << "x" >>
n_len == << "l", "e", "n" >>
n_lensrc == << "l", "e", "n", "s", "r", "c" >>
n_width == << "w", "i", "d", "t", "h" >>
n_imagedefaults == << "i", "m", "a", "g", "e", "d", "e", "f", "a", "u", "l", "t", "s" >>
n_a == << "a" >>
n_b == << "b" >>

Variants ==
    { <<NoneVal, NoneVal>>, <<StrVal, StrVal>>,
      <<StrsVal(<<n_b, n_a, n_b>>), StrsVal(<<n_b, n_a, n_b>>)>>,
      <<NumsVal, NoneVal>>, <<NoneVal, NumsVal>> }

Font ==
    ObjVal(<<n_size, n_color>>, (n_size :> NoneVal) @@ (n_color :> NoneVal))

Line ==
    ObjVal(<<n_width, n_color>>, (n_width :> NoneVal) @@ (n_color :> NoneVal))

ColorBar ==
    ObjVal(<<n_x, n_len, n_lensrc, n_stepdefaults>>,
           (n_x :> NoneVal) @@ (n_len :> NoneVal) @@ (n_lensrc :> NoneVal)
           @@ (n_stepdefaults :> TupleVal))

Marker(lv) ==
    ObjVal(<<n_line, n_color, n_bar, n_colorsrc, n_stepdefaults>>,
           (n_line :> Line) @@ (n_color :> lv) @@ (n_bar :> ColorBar)
           @@ (n_colorsrc :> NoneVal) @@ (n_stepdefaults :> TupleVal))

Layout(lv) ==
    ObjVal(<<n_meta, n_font, n_imagedefaults>>,
           (n_meta :> lv) @@ (n_font :> Font) @@ (n_imagedefaults :> TupleVal))

Bar(mv, lv) ==
    [class_name |-> n_Bar,
     params |-> <<n_arg, n_font, n_marker, n_meta, n_metasrc, n_xaxis,
                  n_kwargs>>,
     item |-> (n_font :> Font) @@ (n_marker :> Marker(lv)) @@ (n_meta :> mv)
              @@ (n_metasrc :> NoneVal) @@ (n_xaxis :> NoneVal),
     missing |-> "PlotlyKeyError"]

Fig(lv) ==
    [class_name |-> n_Fig,
     params |-> <<n_layout, n_frames, n_skip, n_kwargs>>,
     item |-> (n_layout :> Layout(lv)) @@ (n_frames :> TupleVal),
     missing |-> "KeyError"]

Box ==
    [class_name |-> n_Box,
     params |-> <<n_arg, n_xsrc, n_kwargs>>,
     item |-> (n_xsrc :> NoneVal),
     missing |-> "PlotlyKeyError"]

GoObjects ==
    {Bar(v[1], v[2]) : v \in Variants}
    \cup {Fig(v[2]) : v \in Variants} \cup {Box}

\* root_key: the default, and a class name
RootKeys == {Empty, n_Bar}

\* the largest start of a range
MaxStart == 2

\* the end every range slider starts with
SliderEnd == 500

Starts == 0..MaxStart
Ends == (1..MaxStart) \cup {SliderEnd}

Levels ==
    {NoRange, [st |-> "noend", start |-> 0, end |-> 0]}
    \cup {[st |-> "ok", start |-> s, end |-> e] : s \in Starts, e \in Ends}

Splits ==
    {NoSplit}
    \cup {[present |-> TRUE, level_1 |-> l1, level_2 |-> l2, level_3 |-> l3] :
            l1 \in Levels, l2 \in Levels, l3 \in Levels}

VARIABLES
    pc,         \* "idle", "first", "mid", "last" or "done"
    go_obj,     \* the arguments of the call
    split,
    root_key,
    tree,       \* the tree the passes extend
    zipped,     \* the triples find_first_options returns
    len_levels, \* (zipped_len, len_lv_2, len_lv_3)
    raised,     \* the exception the call ended with, or "none"
    calls,      \* how many times in a row the call was made with these
                \* arguments (counted where a call is repeated)
    kept,       \* what the first of two calls in a row ended with
    checklist,  \* the value of the root object's radio items, or None
    store,      \* the data of the store 'store'
    container,  \* the children of 'container': "empty" or "controls"
    ctl,        \* the props of the components of the container
    theme,      \* the data of theme_switch_value_store
    requested,  \* the callbacks that are requested and have not run
    events,     \* the number of user events so far
    chain,      \* the last user event: its kind, whether nothing was
                \* requested when it happened, and the runs of
                \* update_treemap_and_store since
    failed,     \* the callbacks that raised, with the exception
    origin      \* the selection the figure and store_len_lev_1 were
                \* computed from

\* the variables of one call, those of the page, and the others
ks_vars == <<pc, go_obj, split, root_key, tree, zipped, len_levels, raised>>

ui_vars == <<checklist, store, container, ctl, theme, requested, events,
             chain, failed, origin>>

others == <<calls, kept, ui_vars>>

vars == <<ks_vars, others>>

(***************************************************************************)
(* The page pages/graph_objects_explorer_page.py: its components and its   *)
(* callbacks.                                                              *)
(*                                                                         *)
(* Dash runs a callback when one of its Inputs changes (a user event or    *)
(* the Output of another callback) and, for the callbacks of components    *)
(* that have just been added to the page, once at the start unless         *)
(* prevent_initial_call is set.  A requested callback waits while a        *)
(* callback that writes one of its Inputs is itself requested; a callback  *)
(* requested twice before it runs, runs once.  State is read when the      *)
(* callback runs.  A callback that raises writes nothing.                  *)
(***************************************************************************)
\* None is the empty sequence; a value that may be None is <<value>>
None == << >>
Some(value) == <<value>>

\* a figure that is None
NoFigure ==
    [present |-> FALSE, parents |-> << >>, labels |-> << >>, ids |-> << >>,
     marker_colorscale |-> << >>, sort |-> FALSE, theme |-> FALSE]

\* MARKER_COLORSCALE: the value the radio items start with, and another
sunsetdark == << "s", "u", "n", "s", "e", "t", "d", "a", "r", "k" >>
hot == << "h", "o", "t" >>
MARKER_COLORSCALE == << hot, sunsetdark >>

suffix_r == << "_", "r" >>

\* str.lower() and str.isupper()
UpperCase == {"B", "F"}

LowerChar(ch) ==
    CASE ch = "B" -> "b"
      [] ch = "F" -> "f"
      [] OTHER    -> ch

Lower(s) == [i \in 1..Len(s) |-> LowerChar(s[i])]

IsUpper(ch) == ch \in UpperCase

\* create_go_info_item(object_type, url_post, url_pre_section)
create_go_info_item(object, url_post, url_pre_section) ==
    LET post == IF url_post = None THEN Lower(object.class_name)
                ELSE url_post
        pre  == IF url_pre_section = None THEN post ELSE url_pre_section
    IN  [object |-> object, url_post |-> post, url_pre_section |-> pre]

\* GO_INFO: the objects the page offers, as they are constructed (no
\* attribute set: a value is None, a compound object or a tuple)
GO_INFO ==
    (n_Bar :> create_go_info_item(Bar(NoneVal, NoneVal), None, None))
    @@ (n_Fig :> create_go_info_item(Fig(NoneVal), None, None))

(***************************************************************************)
(* The layout                                                              *)
(***************************************************************************)

\* the components display_components creates, with the props they are
\* created with; store_len_lev_1 is given so that a variant can be written
Controls(store_len_lev_1) ==
    [store_len_lev_1 |-> store_len_lev_1,
     store_split |-> NoSplit,
     slider_1 |-> <<1, SliderEnd>>, slider_1_max |-> None,
     slider_2 |-> <<0, SliderEnd>>, slider_2_max |-> None,
     slider_3 |-> <<0, SliderEnd>>, slider_3_max |-> None,
     slider_3_disabled |-> FALSE,
     sort_switch |-> TRUE,
     reverse_colors_switch |-> FALSE,
     colorscale_value |-> sunsetdark,
     colorscale_options |-> MARKER_COLORSCALE,
     figure |-> NoFigure,
     treemap_style |-> "none",
     accordion_item_style |-> "none",
     clickData |-> None,
     click_data |-> None,
     iframe_style |-> "unset",
     col_iframe_style |-> "none",
     \* not props: what the last fetch met, and the click, the fetch and
     \* the selection that the link shown was made from
     fetched |-> "none",
     shown |-> None]

\* variant of create_main_controls_accordion: the store keeps its data
keep_store_len_lev_1 == Controls(ctl.store_len_lev_1)

create_main_controls_accordion == Controls(None)

(***************************************************************************)
(* The callbacks, as their decorators declare them                         *)
(***************************************************************************)
PageCallbacks ==
    {"reset_store_count_on_checklist_change", "display_components"}

ControlCallbacks ==
    {"update_colorscale_checklist", "update_treemap_and_store",
     "update_treemap_based_on_slider_inputs", "disable_slider",
     "update_click_data_display",
     "update_accordion_and_slider_based_on_treemap"}

Inputs(cb) ==
    CASE cb = "reset_store_count_on_checklist_change" ->
            {"checklist.value"}
      [] cb = "display_components" ->
            {"store.data"}
      [] cb = "update_colorscale_checklist" ->
            {"reverse_colors_switch.value"}
      [] cb = "update_treemap_and_store" ->
            {"checklist_colorscale.value", "theme_switch_value_store.data",
             "store_split.data", "sort_switch.value"}
      [] cb = "update_treemap_based_on_slider_inputs" ->
            {"slider_1.value", "slider_2.value", "slider_3.value"}
      [] cb = "disable_slider" ->
            {"slider_2.value"}
      [] cb = "update_click_data_display" ->
            {"treemap.clickData"}
      [] cb = "update_accordion_and_slider_based_on_treemap" ->
            {"treemap.figure"}

Outputs(cb) ==
    CASE cb = "reset_store_count_on_checklist_change" ->
            {"store.data"}
      [] cb = "display_components" ->
            {"container.children"}
      [] cb = "update_colorscale_checklist" ->
            {"checklist_colorscale.value", "checklist_colorscale.options"}
      [] cb = "update_treemap_and_store" ->
            {"treemap.figure", "treemap.style", "store_len_lev_1.data",
             "slider_2.max", "slider_3.max"}
      [] cb = "update_treemap_based_on_slider_inputs" ->
            {"store_split.data"}
      [] cb = "disable_slider" ->
            {"slider_3.disabled", "slider_3.value"}
      [] cb = "update_click_data_display" ->
            {"click_data.children", "click_data.href", "iframe.src",
             "iframe.style", "col_graph.md", "col_iframe.style"}
      [] cb = "update_accordion_and_slider_based_on_treemap" ->
            {"slider_1.max", "accordion_item.style", "accordion_item.title"}

\* prevent_initial_call=True
PreventInitialCall == {"disable_slider"}

\* the callbacks of the components that are on the page
Present ==
    IF container = "controls" THEN PageCallbacks \cup ControlCallbacks
    ELSE PageCallbacks

\* the callbacks that a change of one of props requests
Triggered(props) == {cb \in Present : Inputs(cb) \cap props # {}}

\* a requested callback waits for the requested callbacks that write one of
\* its Inputs
Blocked(cb) ==
    \E other \in requested \ {cb} : Outputs(other) \cap Inputs(cb) # {}

Ready(cb) == cb \in requested /\ ~Blocked(cb)

\* variant of AfterRun: what cb writes requests no callback
AfterRunSilent(cb) == requested \ {cb}

\* requested, once cb has run and written its Outputs
AfterRun(cb) == (requested \ {cb}) \cup Triggered(Outputs(cb))

\* requested, once cb has run and written nothing (PreventUpdate, or an
\* exception)
AfterNoUpdate(cb) == requested \ {cb}

Quiescent == requested = {}

(***************************************************************************)
(* Strings of update_click_data_display and of update_colorscale_checklist *)
(***************************************************************************)

\* s.split(sep) for a separator of one character
RECURSIVE SplitFrom(_, _, _, _)
SplitFrom(s, sep, i, part) ==
    IF i > Len(s) THEN <<part>>
    ELSE IF s[i] = sep THEN <<part>> \o SplitFrom(s, sep, i + 1, << >>)
    ELSE SplitFrom(s, sep, i + 1, Append(part, s[i]))

Split(s, sep) == SplitFrom(s, sep, 1, << >>)

\* variant of Dashed: only the first segment is appended
DashedFirst(parts) ==
    IF parts = << >> THEN << >> ELSE << "-" >> \o Head(parts)

\* ''.join(f'-{pat_str}' for pat_str in parts)
RECURSIVE Dashed(_)
Dashed(parts) ==
    IF parts = << >> THEN << >>
    ELSE << "-" >> \o Head(parts) \o Dashed(Tail(parts))

\* the literal 'https://plotly.com/python/reference/', which holds neither
\* '#' nor '*', is written as one element
url_pre == << "https://plotly.com/python/reference/" >>

\* f"{url_pre}{url_post}/#{url_pre_section}" followed by the segments
AnchoredUrl(info, clicked_id_split) ==
    url_pre \o info.url_post \o << "/", "#" >> \o info.url_pre_section
    \o Dashed(clicked_id_split)

\* variant of modify: the suffix is added whatever the switch says
modify_always(main_string, switch_value) == main_string \o suffix_r

\* modify(main_string) of update_colorscale_checklist
modify(main_string, switch_value) ==
    IF switch_value THEN main_string \o suffix_r
    ELSE Replace(main_string, suffix_r, Empty)

\* what the fetch of check_section_exists meets: a transport error, a page
\* without the section, a page with it
Fetches == {"failed", "missing", "found"}

\* check_section_exists(url): soup is bound only when requests.get returned
check_section_exists(url, fetch) ==
    IF fetch = "failed"
    THEN [exc |-> "UnboundLocalError", val |-> FALSE]
    ELSE [exc |-> "none", val |-> fetch = "found"]

(***************************************************************************)
(* The page, from its first load                                           *)
(***************************************************************************)
UIInit ==
    /\ checklist = None
    /\ store = [count |-> 0]
    /\ container = "empty"
    /\ ctl = Controls(None)  \* not on the page yet
    /\ theme = TRUE
    /\ requested = PageCallbacks
    /\ events = 0
    /\ chain = [kind |-> "load", clean |-> TRUE, searches |-> 0]
    /\ failed = {}
    /\ origin = [figure |-> None, len |-> None]

(***************************************************************************)
(* One call of keys_search, pass by pass                                   *)
(***************************************************************************)
NoResult == [raised |-> "none", tree |-> EmptyTree, len_levels |-> <<0, 0, 0>>]

Init ==
    /\ pc = "idle"
    /\ go_obj = Box
    /\ split = NoSplit
    /\ root_key = Empty
    /\ tree = EmptyTree
    /\ zipped = << >>
    /\ len_levels = <<0, 0, 0>>
    /\ raised = "none"
    /\ calls = 0
    /\ kept = NoResult
    /\ UIInit

\* keys_search(go_obj, split, root_key) is called
Call ==
    /\ pc = "idle"
    /\ go_obj' \in GoObjects
    /\ split' \in Splits
    /\ root_key' \in RootKeys
    /\ pc' = "first"
    /\ tree' = EmptyTree
    /\ zipped' = << >>
    /\ len_levels' = <<0, 0, 0>>
    /\ raised' = "none"
    /\ UNCHANGED others

\* the root pass with "tree = {}" left out: the lists it builds are appended
\* to the tree it finds
FirstOnLeftover ==
    /\ pc = "first"
    /\ LET r == FindFirstOptions(go_obj, root_key, split)
       IN  /\ raised' = r.raised
           /\ tree' = [parents |-> tree.parents \o r.tree.parents,
                       labels  |-> tree.labels \o r.tree.labels,
                       ids     |-> tree.ids \o r.tree.ids]
           /\ zipped' = r.zipped
           /\ len_levels' = <<r.zipped_len, 0, 0>>
           /\ pc' = IF r.raised = "none" THEN "mid" ELSE "done"
    /\ UNCHANGED <<go_obj, split, root_key, others>>

First ==
    /\ pc = "first"
    /\ LET r == FindFirstOptions(go_obj, root_key, split)
       IN  /\ raised' = r.raised
           /\ tree' = r.tree
           /\ zipped' = r.zipped
           /\ len_levels' = <<r.zipped_len, 0, 0>>
           /\ pc' = IF r.raised = "none" THEN "mid" ELSE "done"
    /\ UNCHANGED <<go_obj, split, root_key, others>>

Mid ==
    /\ pc = "mid"
    /\ LET r == FindMidOptions(tree, go_obj, root_key, split)
       IN  /\ raised' = r.raised
           /\ tree' = r.tree
           /\ len_levels' = <<len_levels[1], r.list_max, 0>>
           /\ pc' = IF r.raised = "none" THEN "last" ELSE "done"
    /\ UNCHANGED <<go_obj, split, root_key, zipped, others>>

Last ==
    /\ pc = "last"
    /\ LET r == FindLastOptions(tree, zipped, go_obj, root_key, split)
       IN  /\ raised' = r.raised
           /\ tree' = r.tree
           /\ len_levels' = <<len_levels[1], len_levels[2], r.list_max>>
           /\ pc' = "done"
    /\ UNCHANGED <<go_obj, split, root_key, zipped, others>>

\* the caller takes the result; the next call starts from nothing
Return ==
    /\ pc = "done"
    /\ pc' = "idle"
    /\ go_obj' = Box
    /\ split' = NoSplit
    /\ root_key' = Empty
    /\ tree' = EmptyTree
    /\ zipped' = << >>
    /\ len_levels' = <<0, 0, 0>>
    /\ raised' = "none"
    /\ calls' = 0
    /\ kept' = NoResult
    /\ UNCHANGED ui_vars

Next == Call \/ First \/ Mid \/ Last \/ Return

Spec == Init /\ [][Next]_vars

(***************************************************************************)
(* Two calls in a row with the same arguments.  What the passes of the     *)
(* first call built (tree, zipped, the counts) is still there when the     *)
(* second call starts.                                                     *)
(***************************************************************************)

\* the ranges of the repeated calls: none, or the smallest and the largest
\* start with the largest bounded end and the slider's end
FewLevels ==
    {NoRange}
    \cup {[st |-> "ok", start |-> s, end |-> e] :
            s \in {0, MaxStart}, e \in {MaxStart, SliderEnd}}

FewSplits ==
    {NoSplit}
    \cup {[present |-> TRUE, level_1 |-> l1, level_2 |-> l2, level_3 |-> l3] :
            l1 \in FewLevels, l2 \in FewLevels, l3 \in FewLevels}

FirstCall ==
    /\ pc = "idle"
    /\ go_obj' \in GoObjects
    /\ split' \in FewSplits
    /\ root_key' \in RootKeys
    /\ pc' = "first"
    /\ calls' = 1
    /\ UNCHANGED <<tree, zipped, len_levels, raised, kept, ui_vars>>

\* the caller keeps the first result and calls again
SecondCall ==
    /\ pc = "done" /\ calls = 1
    /\ kept' = [raised |-> raised, tree |-> tree, len_levels |-> len_levels]
    /\ calls' = 2
    /\ pc' = "first"
    /\ UNCHANGED <<go_obj, split, root_key, tree, zipped, len_levels, raised,
                   ui_vars>>

TwiceNext == FirstCall \/ First \/ Mid \/ Last \/ SecondCall \/ Return

TwiceSpec == Init /\ [][TwiceNext]_vars

(***************************************************************************)
(* The callbacks                                                           *)
(***************************************************************************)
call_vars == <<ks_vars, calls, kept>>

\* cb raised exc: nothing is written
Raises(cb, exc) ==
    /\ failed' = failed \cup {[callback |-> cb, exc |-> exc]}
    /\ requested' = AfterNoUpdate(cb)

reset_store_count_on_checklist_change ==
    /\ Ready("reset_store_count_on_checklist_change")
    /\ store' = IF checklist # None THEN [store EXCEPT !.count = 1]
                ELSE store
    /\ requested' = AfterRun("reset_store_count_on_checklist_change")
    /\ UNCHANGED <<checklist, container, ctl, theme, events, chain, failed,
                   origin, call_vars>>

\* the new children replace the components of the container: the callbacks
\* requested for the old ones are dropped, those of the new ones are
\* requested for their first run
InitialCalls ==
    ((requested \ {"display_components"}) \ ControlCallbacks)
    \cup (ControlCallbacks \ PreventInitialCall)

\* variant of display_components: no test of data['count']
display_components_always ==
    /\ Ready("display_components")
    /\ container' = "controls"
    /\ ctl' = create_main_controls_accordion
    /\ requested' = InitialCalls
    /\ UNCHANGED <<checklist, store, theme, events, chain, failed, origin,
                   call_vars>>

display_components ==
    /\ Ready("display_components")
    /\ IF store.count = 0
       THEN \* raise PreventUpdate
            /\ requested' = AfterNoUpdate("display_components")
            /\ UNCHANGED <<container, ctl>>
       ELSE /\ container' = "controls"
            /\ ctl' = create_main_controls_accordion
            /\ requested' = InitialCalls
    /\ UNCHANGED <<checklist, store, theme, events, chain, failed, origin,
                   call_vars>>

update_colorscale_checklist ==
    /\ Ready("update_colorscale_checklist")
    /\ LET switch_value == ctl.reverse_colors_switch
           new_checklist_options ==
               [i \in 1..Len(ctl.colorscale_options) |->
                   modify(ctl.colorscale_options[i], switch_value)]
           new_checklist_value == modify(ctl.colorscale_value, switch_value)
       IN  ctl' = [ctl EXCEPT !.colorscale_value = new_checklist_value,
                              !.colorscale_options = new_checklist_options]
    /\ requested' = AfterRun("update_colorscale_checklist")
    /\ UNCHANGED <<checklist, store, container, theme, events, chain, failed,
                   origin, call_vars>>

\* variant of callback_count: the count of this run, whatever the store
\* holds
callback_recount(store_len_lev_1, counts) == Some(counts[1])

\* store_len_lev_1 if store_len_lev_1 is not None else len_levels[0]
callback_count(store_len_lev_1, counts) ==
    IF store_len_lev_1 # None THEN store_len_lev_1
    ELSE Some(counts[1])

update_treemap_and_store ==
    /\ Ready("update_treemap_and_store")
    /\ chain' = [chain EXCEPT !.searches = @ + 1]
    /\ IF checklist \notin DOMAIN GO_INFO
       THEN \* GO_INFO[main_checklist]
            /\ Raises("update_treemap_and_store", "KeyError")
            /\ UNCHANGED <<ctl, origin>>
       ELSE \E r \in {KeysSearch(GO_INFO[checklist].object,
                                   ctl.store_split, Empty)} :
                IF r.raised # "none"
                THEN /\ Raises("update_treemap_and_store", r.raised)
                     /\ UNCHANGED <<ctl, origin>>
                ELSE /\ ctl' = [ctl EXCEPT
                            !.figure =
                                [present |-> TRUE, parents |-> r.parents,
                                 labels |-> r.labels, ids |-> r.ids,
                                 marker_colorscale |-> ctl.colorscale_value,
                                 sort |-> ctl.sort_switch, theme |-> theme],
                            !.treemap_style = "",
                            !.store_len_lev_1 =
                                callback_count(ctl.store_len_lev_1,
                                               r.len_levels),
                            !.slider_2_max = Some(r.len_levels[2]),
                            !.slider_3_max = Some(r.len_levels[3])]
                     /\ origin' =
                            [figure |-> checklist,
                             len |-> IF ctl.store_len_lev_1 # None
                                     THEN origin.len ELSE checklist]
                     /\ requested' = AfterRun("update_treemap_and_store")
                     /\ UNCHANGED failed
    /\ UNCHANGED <<checklist, store, container, theme, events, call_vars>>

update_treemap_based_on_slider_inputs ==
    /\ Ready("update_treemap_based_on_slider_inputs")
    /\ LET level(slider_value) ==
               [st |-> "ok", start |-> slider_value[1],
                end |-> slider_value[2]]
       IN  ctl' = [ctl EXCEPT !.store_split =
                      [present |-> TRUE, level_1 |-> level(ctl.slider_1),
                       level_2 |-> level(ctl.slider_2),
                       level_3 |-> level(ctl.slider_3)]]
    /\ requested' = AfterRun("update_treemap_based_on_slider_inputs")
    /\ UNCHANGED <<checklist, store, container, theme, events, chain, failed,
                   origin, call_vars>>

disable_slider ==
    /\ Ready("disable_slider")
    /\ IF ~ctl.store_split.present
       THEN \* store_split['level_3'] with store_split None
            /\ Raises("disable_slider", "TypeError")
            /\ UNCHANGED ctl
       ELSE LET level_3_values == <<ctl.store_split.level_3.start,
                                    ctl.store_split.level_3.end>>
            IN  /\ ctl' = [ctl EXCEPT
                            !.slider_3_disabled = (ctl.slider_2[2] = 0),
                            !.slider_3 = level_3_values]
                /\ requested' = AfterRun("disable_slider")
                /\ UNCHANGED failed
    /\ UNCHANGED <<checklist, store, container, theme, events, chain, origin,
                   call_vars>>

update_click_data_display ==
    /\ Ready("update_click_data_display")
    /\ IF \/ ctl.clickData = None
          \/ /\ ~({"id", "root"} \subseteq ctl.clickData[1].keys)
             /\ "entry" \notin ctl.clickData[1].keys
       THEN \* raise PreventUpdate
            /\ requested' = AfterNoUpdate("update_click_data_display")
            /\ UNCHANGED <<ctl, failed>>
       ELSE IF checklist \notin DOMAIN GO_INFO
       THEN \* GO_INFO[checklist]
            /\ Raises("update_click_data_display", "KeyError")
            /\ UNCHANGED ctl
       ELSE \E fetch \in Fetches :
          LET point == ctl.clickData[1]
              clicked_id == IF {"id", "root"} \subseteq point.keys
                            THEN point.id ELSE point.entry
              clicked_id_split == Split(clicked_id, "*")
              anchored == AnchoredUrl(GO_INFO[checklist], clicked_id_split)
              exists == check_section_exists(anchored, fetch)
              upper == IsUpper(clicked_id_split[1][1])
              doc_url == IF upper THEN Split(anchored, "#")[1] ELSE anchored
              display == IF upper \/ exists.val THEN "" ELSE "none"
          IN  IF exists.exc # "none"
              THEN /\ Raises("update_click_data_display", exists.exc)
                   /\ ctl' = [ctl EXCEPT !.fetched = fetch]
              ELSE IF clicked_id_split[1] = Empty
              THEN \* clicked_id_split[0][0] of an empty first segment
                   /\ Raises("update_click_data_display", "IndexError")
                   /\ ctl' = [ctl EXCEPT !.fetched = fetch]
              ELSE /\ ctl' = [ctl EXCEPT
                            !.click_data = doc_url,
                            !.iframe_style = display,
                            !.col_iframe_style = "",
                            !.fetched = fetch,
                            !.shown = Some([id |-> clicked_id,
                                            fetch |-> fetch,
                                            checklist |-> checklist])]
                   /\ requested' = AfterRun("update_click_data_display")
                   /\ UNCHANGED failed
    /\ UNCHANGED <<checklist, store, container, theme, events, chain, origin,
                   call_vars>>

update_accordion_and_slider_based_on_treemap ==
    /\ Ready("update_accordion_and_slider_based_on_treemap")
    /\ IF checklist \notin DOMAIN GO_INFO
       THEN \* GO_INFO[checklist]
            /\ Raises("update_accordion_and_slider_based_on_treemap",
                      "KeyError")
            /\ UNCHANGED ctl
       ELSE /\ ctl' = [ctl EXCEPT !.slider_1_max = ctl.store_len_lev_1,
                                  !.accordion_item_style = ""]
            /\ requested' =
                   AfterRun("update_accordion_and_slider_based_on_treemap")
            /\ UNCHANGED failed
    /\ UNCHANGED <<checklist, store, container, theme, events, chain, origin,
                   call_vars>>

(***************************************************************************)
(* The user                                                                *)
(***************************************************************************)

\* the number of user events of a run
MaxEvents == 4

\* a user event of some kind changes props
UserEvent(kind, props) ==
    /\ events < MaxEvents
    /\ events' = events + 1
    /\ chain' = [kind |-> kind, clean |-> Quiescent, searches |-> 0]
    /\ requested' = requested \cup Triggered(props)

\* the radio items of the root object: another key of GO_INFO is chosen
select_root ==
    /\ \E key \in DOMAIN GO_INFO :
        /\ key # checklist
        /\ checklist' = key
    /\ UserEvent(IF checklist = None THEN "select_root" ELSE "change_root",
                 {"checklist.value"})
    /\ UNCHANGED <<store, container, ctl, theme, failed, origin, call_vars>>

\* the controls are on the page and their accordion item is displayed
ControlsShown == container = "controls" /\ ctl.accordion_item_style = ""

\* where the handles of a range slider are put: on the whole range, or
\* both at the low end as near as pushable lets them
Moves(min_val, pushable_val, max) ==
    {value \in {<<min_val, max>>, <<min_val, min_val + pushable_val>>} :
        value[2] <= max}

move_slider_1 ==
    /\ ControlsShown /\ ctl.slider_1_max # None
    /\ \E value \in Moves(1, 1, ctl.slider_1_max[1]) :
        /\ value # ctl.slider_1
        /\ ctl' = [ctl EXCEPT !.slider_1 = value]
    /\ UserEvent("slider_1", {"slider_1.value"})
    /\ UNCHANGED <<checklist, store, container, theme, failed, origin,
                   call_vars>>

move_slider_2 ==
    /\ ControlsShown /\ ctl.slider_2_max # None
    /\ \E value \in Moves(0, 0, ctl.slider_2_max[1]) :
        /\ value # ctl.slider_2
        /\ ctl' = [ctl EXCEPT !.slider_2 = value]
    /\ UserEvent("slider_2", {"slider_2.value"})
    /\ UNCHANGED <<checklist, store, container, theme, failed, origin,
                   call_vars>>

move_slider_3 ==
    /\ ControlsShown /\ ctl.slider_3_max # None /\ ~ctl.slider_3_disabled
    /\ \E value \in Moves(0, 0, ctl.slider_3_max[1]) :
        /\ value # ctl.slider_3
        /\ ctl' = [ctl EXCEPT !.slider_3 = value]
    /\ UserEvent("slider_3", {"slider_3.value"})
    /\ UNCHANGED <<checklist, store, container, theme, failed, origin,
                   call_vars>>

pick_colorscale ==
    /\ ControlsShown
    /\ \E i \in 1..Len(ctl.colorscale_options) :
        /\ ctl.colorscale_options[i] # ctl.colorscale_value
        /\ ctl' = [ctl EXCEPT !.colorscale_value = ctl.colorscale_options[i]]
    /\ UserEvent("checklist_colorscale", {"checklist_colorscale.value"})
    /\ UNCHANGED <<checklist, store, container, theme, failed, origin,
                   call_vars>>

toggle_sort_switch ==
    /\ ControlsShown
    /\ ctl' = [ctl EXCEPT !.sort_switch = ~ctl.sort_switch]
    /\ UserEvent("sort_switch", {"sort_switch.value"})
    /\ UNCHANGED <<checklist, store, container, theme, failed, origin,
                   call_vars>>

toggle_reverse_colors_switch ==
    /\ ControlsShown
    /\ ctl' = [ctl EXCEPT
                !.reverse_colors_switch = ~ctl.reverse_colors_switch]
    /\ UserEvent("reverse_colors_switch", {"reverse_colors_switch.value"})
    /\ UNCHANGED <<checklist, store, container, theme, failed, origin,
                   call_vars>>

\* the theme switch of the application shell
toggle_theme ==
    /\ theme' = ~theme
    /\ UserEvent("theme_switch", {"theme_switch_value_store.data"})
    /\ UNCHANGED <<checklist, store, container, ctl, failed, origin,
                   call_vars>>

\* the number of '*' of an id
Depth(id) == Len(Split(id, "*")) - 1

\* the points a click on the treemap reports: the first node of each depth
\* with its id, the root the figure does not list (by the entry alone), and
\* a point with none of the keys the callback looks for
Points(figure) ==
    {[keys |-> {"id", "root", "entry"}, id |-> figure.ids[i],
      entry |-> figure.parents[i]] :
        i \in {k \in 1..Len(figure.ids) :
                \A j \in 1..(k - 1) :
                    Depth(figure.ids[j]) # Depth(figure.ids[k])}}
    \cup {[keys |-> {"entry"}, id |-> Empty, entry |-> figure.parents[1]]}
    \cup {[keys |-> {"label"}, id |-> Empty, entry |-> Empty]}

click_treemap ==
    /\ container = "controls" /\ ctl.treemap_style = ""
    /\ \E point \in Points(ctl.figure) :
        /\ Some(point) # ctl.clickData
        /\ ctl' = [ctl EXCEPT !.clickData = Some(point)]
    /\ UserEvent("treemap", {"treemap.clickData"})
    /\ UNCHANGED <<checklist, store, container, theme, failed, origin,
                   call_vars>>

(***************************************************************************)
(* The page with a user who works the controls                             *)
(***************************************************************************)
UINext ==
    \/ reset_store_count_on_checklist_change
    \/ display_components
    \/ update_colorscale_checklist
    \/ update_treemap_and_store
    \/ update_treemap_based_on_slider_inputs
    \/ disable_slider
    \/ update_click_data_display
    \/ update_accordion_and_slider_based_on_treemap
    \/ select_root
    \/ move_slider_1
    \/ move_slider_2
    \/ move_slider_3
    \/ pick_colorscale
    \/ toggle_sort_switch
    \/ toggle_reverse_colors_switch
    \/ toggle_theme

UISpec == Init /\ [][UINext]_vars

\* a run of a callback
Callbacks ==
    \/ reset_store_count_on_checklist_change
    \/ display_components
    \/ update_colorscale_checklist
    \/ update_treemap_and_store
    \/ update_treemap_based_on_slider_inputs
    \/ disable_slider
    \/ update_click_data_display
    \/ update_accordion_and_slider_based_on_treemap

\* a callback can run: one is requested and nothing holds it back
SomeReady == \E cb \in requested : Ready(cb)

\* the callbacks are run when they can: weak fairness of Callbacks, with
\* SomeReady written for ENABLED <<Callbacks>>_vars
FairUISpec == UISpec /\ ([]<>~SomeReady \/ []<><<Callbacks>>_vars)

\* the page with a user who selects root objects and clicks on the treemap
ClickNext ==
    \/ reset_store_count_on_checklist_change
    \/ display_components
    \/ update_colorscale_checklist
    \/ update_treemap_and_store
    \/ update_treemap_based_on_slider_inputs
    \/ update_click_data_display
    \/ update_accordion_and_slider_based_on_treemap
    \/ select_root
    \/ click_treemap

ClickSpec == Init /\ [][ClickNext]_vars

(***************************************************************************)
(* Properties of the returned tree                                         *)
(***************************************************************************)
Returned == pc = "done" /\ raised = "none"

Nodes == 1..Len(tree.ids)

class_name == go_obj.class_name

\* the number of root triples before the level_1 slice
UnfilteredRootCount == Len(main_keys(go_obj.params)) + 1

\* the level_1 slice keeps the first triple, the root
KeepsRoot ==
    \/ ~split.present
    \/ split.level_1.st # "ok"
    \/ /\ Clamp(split.level_1.start, UnfilteredRootCount) = 0
       /\ Clamp(split.level_1.end, UnfilteredRootCount) >= 1

\* node i has a parent that is an earlier node, or is the root at index 1
ParentPresent(i) ==
    IF tree.parents[i] = Empty THEN i = 1
    ELSE \E j \in 1..(i - 1) : tree.ids[j] = tree.parents[i]

\* some returned node is a leaf-level node: its parent's parent is a node
HasLeafLevel ==
    \E i, j, k \in Nodes :
        /\ tree.parents[i] = tree.ids[j]
        /\ tree.parents[j] = tree.ids[k]
        /\ tree.parents[k] = class_name

\* C1 (as stated): in every returned tree each node but the root has its
\* parent earlier in ids, and only the root has parent "".
C1_ParentExists == Returned => \A i \in Nodes : ParentPresent(i)

\* C1 (amended): when the level_1 slice keeps the root triple and root_key
\* is "" or the class name, each node but the root has its parent earlier
\* in ids, and only the root has parent "".
C1_ParentExistsUnderRoot ==
    (Returned /\ KeepsRoot /\ root_key \in {Empty, class_name})
        => \A i \in Nodes : ParentPresent(i)

\* a filtered call that keeps the root and returns all three levels
C1_Witness ==
    /\ Returned /\ KeepsRoot /\ root_key \in {Empty, class_name}
    /\ split.present /\ split.level_1.st = "ok"
    /\ HasLeafLevel

\* C2 (as stated): level_1_count is len(main_keys) + 1 whatever the
\* level_1 range is.
C2_CountBeforeSlice ==
    (pc \in {"mid", "last", "done"} /\ raised = "none")
        => len_levels[1] = UnfilteredRootCount

\* C3 (as stated): with root_key at its default the root's id is the class
\* name and every other node's id is its parent's id, "*", its label.
C3_IdIsPath ==
    (Returned /\ root_key = Empty) =>
        \A i \in Nodes :
            IF tree.parents[i] = Empty THEN tree.ids[i] = class_name
            ELSE tree.ids[i] = tree.parents[i] \o Star \o tree.labels[i]

\* C3 (amended): the root's id is the class name; a root-level node's id is
\* its bare label when root_key is "" and class name, "*", label otherwise;
\* every mid-level and leaf-level node's id is its parent, "*", its label.
C3_IdIsPathBelowRoot ==
    Returned =>
        \A i \in Nodes :
            IF tree.parents[i] = Empty THEN tree.ids[i] = class_name
            ELSE IF tree.parents[i] = class_name
            THEN tree.ids[i] = IF root_key = Empty THEN tree.labels[i]
                               ELSE class_name \o Star \o tree.labels[i]
            ELSE tree.ids[i] = tree.parents[i] \o Star \o tree.labels[i]

\* a call with root_key at its default that returns all three levels
C3_Witness == Returned /\ root_key = Empty /\ HasLeafLevel

Unfiltered == KeysSearch(go_obj, NoSplit, root_key)

\* C5 (as stated): level_2_count and level_3_count are under every filter
\* range what they are with the filter absent.
C5_CountsIgnoreFilter ==
    (Returned /\ Unfiltered.raised = "none") =>
        /\ len_levels[2] = Unfiltered.len_levels[2]
        /\ len_levels[3] = Unfiltered.len_levels[3]

\* a range whose start is at or past the number of items of its level: the
\* root triples at level 1, the widest unfiltered branch at levels 2 and 3
Overshoots ==
    /\ split.present
    /\ \/ /\ split.level_1.st = "ok"
          /\ split.level_1.start >= UnfilteredRootCount
       \/ /\ split.level_2.st = "ok"
          /\ split.level_2.start >= Unfiltered.len_levels[2]
       \/ /\ split.level_3.st = "ok"
          /\ split.level_3.start >= Unfiltered.len_levels[3]

\* C6 (as stated): a call whose range overshoots a level returns a result,
\* no exception is raised.
C6_OvershootReturns ==
    (pc = "done" /\ Unfiltered.raised = "none" /\ Overshoots)
        => raised = "none"

\* C7 (as stated): the root-level labels of the root pass are in ascending
\* order without duplicates, whatever the order of the constructor's
\* parameters.
C7_RootLevelSorted ==
    (pc \in {"mid", "last", "done"} /\ raised = "none") =>
        \A i, j \in 1..Len(zipped) :
            (i < j /\ zipped[i][1] = class_name /\ zipped[j][1] = class_name)
                => StrLess(zipped[i][2], zipped[j][2])

\* C8 (as stated): no label of a returned node below the root ends with
\* "src" or with "defaults".
C8_NoReservedSuffix ==
    Returned =>
        \A i \in Nodes :
            tree.parents[i] # Empty =>
                /\ ~EndsWith(tree.labels[i], src)
                /\ ~EndsWith(tree.labels[i], defaults)

\* the exceptions that reading or enumerating an attribute's value raises
LookupFailures == {"TypeError", "KeyError", "PlotlyKeyError", "AttributeError"}

\* C9 (as stated): no failure to read or enumerate an attribute's value
\* propagates out of keys_search.
C9_LookupFailuresSkipped == pc = "done" => raised \notin LookupFailures

\* the range that keeps every item of a level
WholeLevel == [st |-> "ok", start |-> 0, end |-> SliderEnd]

Whole(level) == IF level.st = "ok" THEN level ELSE WholeLevel

\* split with the whole range written in for each level whose key is absent
Completed ==
    [present |-> TRUE, level_1 |-> Whole(split.level_1),
     level_2 |-> Whole(split.level_2), level_3 |-> Whole(split.level_3)]

LacksKey ==
    /\ split.present
    /\ \E level \in {split.level_1, split.level_2, split.level_3} :
            level.st # "ok"

\* C10 (as stated): when the mapping lacks the key of a level, no error is
\* raised, that level is emitted unsliced and the other levels are sliced:
\* the call returns what the call with the whole range for that level does.
C10_AbsentKeyUnsliced ==
    (pc = "done" /\ LacksKey /\ Unfiltered.raised = "none") =>
        /\ raised = "none"
        /\ LET r == KeysSearch(go_obj, Completed, root_key)
           IN  /\ r.raised = "none"
               /\ tree = [parents |-> r.parents, labels |-> r.labels,
                          ids |-> r.ids]
               /\ len_levels = r.len_levels

\* the mapping {level_1: {start: 0, end: N}} and nothing else
Level1Only ==
    /\ split.present
    /\ split.level_1.st = "ok" /\ split.level_1.start = 0
    /\ split.level_2 = NoRange /\ split.level_3 = NoRange

\* C11: with filter_range = {level_1: {start: 0, end: N}} and N at or above
\* the unfiltered root count, keys_search ends as it does with filter_range
\* None: the same parents, labels, ids and counts (or the same exception).
C11_WholeLevel1IsNone ==
    (pc = "done" /\ Level1Only /\ split.level_1.end >= UnfilteredRootCount)
        => /\ raised = Unfiltered.raised
           /\ raised = "none" =>
                /\ tree = [parents |-> Unfiltered.parents,
                           labels |-> Unfiltered.labels,
                           ids |-> Unfiltered.ids]
                /\ len_levels = Unfiltered.len_levels

\* such a call that returns all three levels
C11_Witness ==
    /\ Returned /\ Level1Only /\ split.level_1.end >= UnfilteredRootCount
    /\ HasLeafLevel

\* the nodes emitted with node j's id as their parent
Children(j) == {i \in Nodes : tree.parents[i] = tree.ids[j]}

\* node j is a root-level node: its parent is the class name
RootLevel(j) == tree.parents[j] = class_name

\* C12: under no root-level node of a returned tree are there more
\* mid-level children than level_2_count.
C12_ChildrenWithinCount ==
    Returned =>
        \A j \in Nodes :
            RootLevel(j) => Cardinality(Children(j)) <= len_levels[2]

\* a call with a level_2 range in which one root-level node has as many
\* children as the count and another has fewer
C12_Witness ==
    /\ Returned /\ split.present /\ split.level_2.st = "ok"
    /\ \E j, k \in Nodes :
            /\ RootLevel(j) /\ RootLevel(k)
            /\ Cardinality(Children(j)) = len_levels[2]
            /\ Cardinality(Children(k)) > 0
            /\ Cardinality(Children(k)) < len_levels[2]

\* the parent the mid pass writes for the children of root-level node k
ParentUnder(k) ==
    IF root_key = Empty THEN tree.labels[k]
    ELSE root_key \o Star \o tree.labels[k]

\* node j is a mid-level node: it was emitted under a root-level node
MidLevel(j) ==
    \E k \in Nodes : RootLevel(k) /\ tree.parents[j] = ParentUnder(k)

\* node j names an attribute whose value, read as its pass reads it
\* (root_obj[label] or root_obj[parent][label]), is a string or a tuple
ScalarAt(j) ==
    \/ /\ RootLevel(j)
       /\ tree.labels[j] \in DOMAIN go_obj.item
       /\ go_obj.item[tree.labels[j]].kind \in {"str", "tuple"}
    \/ /\ MidLevel(j)
       /\ LET parent == Replace(tree.parents[j], root_key \o Star, Empty)
          IN  /\ parent \in DOMAIN go_obj.item
              /\ go_obj.item[parent].kind = "obj"
              /\ tree.labels[j] \in DOMAIN go_obj.item[parent].item
              /\ go_obj.item[parent].item[tree.labels[j]].kind
                    \in {"str", "tuple"}

\* C13: no node of a returned tree has as its parent the id of an attribute
\* whose value is a string or a tuple, at the mid pass or at the leaf pass.
C13_ScalarsTerminal ==
    Returned =>
        \A j \in Nodes :
            ScalarAt(j) =>
                \A i \in Nodes :
                    /\ tree.parents[i] # tree.ids[j]
                    /\ RootLevel(j) => tree.parents[i] # ParentUnder(j)

\* a returned tree with a tuple-valued root-level attribute and a
\* string-valued mid-level attribute beside expanded ones
C13_Witness ==
    /\ Returned /\ HasLeafLevel
    /\ \E j \in Nodes :
            /\ RootLevel(j) /\ ScalarAt(j)
            /\ go_obj.item[tree.labels[j]].kind = "tuple"
    /\ \E j \in Nodes : ~RootLevel(j) /\ MidLevel(j) /\ ScalarAt(j)

SearchRuns == chain'.searches = chain.searches + 1

\* C15: keys_search is never invoked while no root object is selected:
\* every run of update_treemap_and_store finds a value in the radio
\* selection of the root object, and the controls container stays empty as
\* long as the store count is 0
C15_NoSearchWithoutRoot ==
    /\ [](store.count = 0 => container = "empty")
    /\ [][SearchRuns => checklist # None /\ store.count # 0]_vars

\* the page has run its callbacks to the end with no root object selected,
\* and the user has done something
C15_Witness ==
    /\ checklist = None
    /\ events > 0
    /\ Quiescent
    /\ container = "empty"
    /\ failed = {}

\* the run of update_click_data_display that made the last fetch raised
ClickRaised ==
    \E f \in failed : f.callback = "update_click_data_display"

\* C16: when the fetch of check_section_exists fails with a transport error
\* the failure does not propagate: update_click_data_display completes, and
\* for a clicked id whose first segment does not start with an uppercase
\* letter the iframe is hidden
C16_FetchFailureHidesFrame ==
    ctl.fetched = "failed" =>
        /\ ~ClickRaised
        /\ ctl.shown # None
        /\ ctl.shown[1].fetch = "failed"
        /\ (~IsUpper(Split(ctl.shown[1].id, "*")[1][1]) =>
                ctl.iframe_style = "none")

\* the user events whose callback chain is to run keys_search once
Interactions ==
    {"slider_1", "slider_2", "slider_3", "checklist_colorscale",
     "sort_switch", "reverse_colors_switch"}

\* the callbacks have come to rest after an event that found them at rest
Settled(kind) == Quiescent /\ chain.clean /\ chain.kind = kind

\* C17: a change of one filter slider, of the colorscale, of the sort
\* toggle or of the reverse-colors switch makes update_treemap_and_store
\* run exactly once in the callback chain it starts
C17_OneSearchPerInteraction ==
    \A kind \in Interactions : Settled(kind) => chain.searches = 1

\* the chain of a move of slider 2, which both disable_slider and
\* update_treemap_based_on_slider_inputs listen to, has come to rest
C17_Witness ==
    /\ Settled("slider_2")
    /\ chain.searches = 1
    /\ failed = {}

\* the figure on display and the stored level-1 maximum come from runs of
\* keys_search on the object now selected, and slider 1 has that maximum
FromSelection ==
    /\ ctl.figure.present
    /\ origin.figure = checklist
    /\ ctl.figure.ids =
           KeysSearch(GO_INFO[checklist].object, ctl.store_split, Empty).ids
    /\ ctl.store_len_lev_1 # None
    /\ origin.len = checklist
    /\ ctl.slider_1_max = ctl.store_len_lev_1

\* C18: after the user changes the selected root object the callbacks come
\* to rest, and at rest the displayed tree and the stored level-1 maximum,
\* hence the max of slider 1, were computed by keys_search from the newly
\* selected object
C18_NewRootEverywhere ==
    /\ [](Quiescent /\ chain.kind = "change_root" => FromSelection)
    /\ [](~Quiescent => SomeReady)
    /\ (chain.kind = "change_root" ~> Quiescent)

\* the callbacks have come to rest after a change of the root object
C18_Witness ==
    /\ Settled("change_root")
    /\ FromSelection
    /\ failed = {}

\* the page of the reference and the section of a node id: every '*' of the
\* id becomes '-', after 'url_post/' and '#url_pre_section-'
ReferencePage(key) == url_pre \o GO_INFO[key].url_post \o << "/" >>

ReferenceSection(key, id) ==
    << "#" >> \o GO_INFO[key].url_pre_section \o << "-" >>
    \o Replace(id, << "*" >>, << "-" >>)

\* C19: the URL update_click_data_display returned is the reference page
\* followed by the section of the clicked id; for an id that starts with an
\* uppercase letter the URL is the page alone and the iframe is shown
\* whatever the section check said, otherwise the iframe is shown exactly
\* when check_section_exists returned true
C19_ClickResolves ==
    ctl.shown # None =>
        LET clicked == ctl.shown[1]
        IN  IF IsUpper(clicked.id[1])
            THEN /\ ctl.click_data = ReferencePage(clicked.checklist)
                 /\ ctl.iframe_style = ""
            ELSE /\ ctl.click_data =
                        ReferencePage(clicked.checklist)
                        \o ReferenceSection(clicked.checklist, clicked.id)
                 /\ ctl.iframe_style = "" <=> clicked.fetch = "found"

\* a click on a node below the root level was resolved and the section
\* check said that the page has no such section
C19_Witness ==
    /\ ctl.shown # None
    /\ Depth(ctl.shown[1].id) >= 1
    /\ ctl.shown[1].fetch = "missing"
    /\ ctl.iframe_style = "none"

\* slider 1 is on its full range, from its min to the max the callbacks
\* gave it, and the figure on display was computed with that range
FullRange ==
    /\ Quiescent
    /\ ControlsShown
    /\ failed = {}
    /\ ctl.slider_1_max # None
    /\ ctl.slider_1 = <<1, ctl.slider_1_max[1]>>
    /\ ctl.store_split.present
    /\ ctl.store_split.level_1.start = 1
    /\ ctl.store_split.level_1.end = ctl.slider_1_max[1]
    /\ ctl.figure.present

\* C20: with slider 1 on its full range [1, max], max being the level-1
\* maximum the callbacks published, the figure holds every root-level
\* candidate name of the selected object
C20_FullRangeShowsAll ==
    FullRange =>
        LET object == GO_INFO[checklist].object
        IN  \A k \in 1..Len(main_keys(object.params)) :
                \E i \in 1..Len(ctl.figure.ids) :
                    /\ ctl.figure.labels[i] = main_keys(object.params)[k]
                    /\ ctl.figure.parents[i] = object.class_name

(***************************************************************************)
(* The leaf pass                                                           *)
(***************************************************************************)

\* this step is a run of find_last_options that returned
LeafPassRuns == pc = "last" /\ pc' = "done" /\ raised' = "none"

\* the nodes of the tree the leaf pass is given: those of the root pass,
\* which are the triples of zipped, and after them those of the mid pass
FirstPassNodes == 1..Len(zipped)

MidPassNodes == (Len(zipped) + 1)..Len(tree.ids)

\* C21: the triples the leaf pass goes through are those of the nodes the
\* mid pass added; it leaves the nodes it is given as they are, every node
\* it appends has as its parent the id of a node the mid pass added, and
\* none has as its parent the id of the root node or of a root-level node
\* that was in the tree before the mid pass
C21_LeafExpandsMidOnly ==
    /\ [](pc = "last" =>
            ToSet(zip_diff(tree, zipped)) =
                {<<tree.parents[j], tree.labels[j], tree.ids[j]>> :
                    j \in MidPassNodes})
    /\ [][LeafPassRuns =>
        /\ Len(tree'.ids) >= Len(tree.ids)
        /\ \A i \in 1..Len(tree.ids) :
              /\ tree'.ids[i] = tree.ids[i]
              /\ tree'.parents[i] = tree.parents[i]
              /\ tree'.labels[i] = tree.labels[i]
        /\ \A i \in (Len(tree.ids) + 1)..Len(tree'.ids) :
              /\ \E j \in MidPassNodes : tree'.parents[i] = tree.ids[j]
              /\ \A j \in FirstPassNodes : tree'.parents[i] # tree.ids[j]
       ]_vars

\* a returned tree of a call with a level_1 range that starts after the
\* root node, with root-level, mid-level and leaf nodes
C21_Witness ==
    /\ Returned
    /\ split.present /\ split.level_1.st = "ok" /\ split.level_1.start > 0
    /\ HasLeafLevel
    /\ Len(zipped) > 0
    /\ \E i \in Nodes : \E j \in Nodes :
            /\ j > Len(zipped)
            /\ i > j
            /\ tree.parents[i] = tree.ids[j]

(***************************************************************************)
(* The stored level-1 maximum, the sliders and the colorscales             *)
(***************************************************************************)

\* this step is a run of display_components that renders the controls anew
RendersControls ==
    /\ "display_components" \in requested
    /\ "display_components" \notin requested'
    /\ store.count # 0

\* the count keys_search gives for the object and the filter range the
\* page holds now
CountNow ==
    KeysSearch(GO_INFO[checklist].object, ctl.store_split, Empty).len_levels[1]

\* C22: within one rendering of the controls, once store_len_lev_1 holds a
\* value every later run of update_treemap_and_store, and every other step,
\* leaves that value in it, and the max of slider 1, once set, does not
\* change
C22_StoredMaxKept ==
    [][~RendersControls =>
        /\ ctl.store_len_lev_1 # None =>
              ctl'.store_len_lev_1 = ctl.store_len_lev_1
        /\ ctl.slider_1_max # None => ctl'.slider_1_max = ctl.slider_1_max
      ]_vars

\* slider 1 was narrowed and update_treemap_and_store has run on the new
\* range: the count of that run is smaller than the value the store keeps
C22_Witness ==
    /\ Settled("slider_1")
    /\ chain.searches = 1
    /\ failed = {}
    /\ ctl.store_len_lev_1 # None
    /\ ctl.slider_1_max = ctl.store_len_lev_1
    /\ CountNow < ctl.store_len_lev_1[1]

\* this step is a run of disable_slider that returned
DisableSliderRuns ==
    /\ "disable_slider" \in requested
    /\ "disable_slider" \notin requested'
    /\ failed' = failed

\* C23: in every interleaving of the slider callbacks, disable_slider
\* writes to slider 3 the range slider 3 holds, so that a change of slider 3
\* made by the user is not reverted by a change of slider 2
C23_Slider3Kept ==
    [][DisableSliderRuns => ctl'.slider_3 = ctl.slider_3]_vars

\* the options as the layout gives them and with the suffix of the reversed
\* colorscales
BaseOptions == MARKER_COLORSCALE

ReversedOptions ==
    [i \in 1..Len(MARKER_COLORSCALE) |-> MARKER_COLORSCALE[i] \o suffix_r]

\* C24: after any sequence of runs of update_colorscale_checklist the
\* selected colorscale is one of the options and every option is a base
\* name or that name with one '_r'; at rest the options are the base names
\* when the switch is off and the names with one '_r' when it is on
C24_OneSuffix ==
    container = "controls" =>
        /\ In(ctl.colorscale_value, ctl.colorscale_options)
        /\ \A i \in 1..Len(ctl.colorscale_options) :
              ctl.colorscale_options[i]
                  \in {BaseOptions[i], ReversedOptions[i]}
        /\ Quiescent =>
              ctl.colorscale_options =
                  IF ctl.reverse_colors_switch THEN ReversedOptions
                  ELSE BaseOptions

=============================================================================
